---- MODULE Spec2Model ----
(***************************************************************************)
(* State-machine model of WebCrawlerTools (src/src/web_crawler_mcp/        *)
(* tools.py): crawl_news_article, extract_multiple_news_articles,          *)
(* discover_news_from_rss, search_and_extract_news and get_news_summary.   *)
(*                                                                         *)
(* Text is a sequence of one-character strings, so that str.lower(),       *)
(* the `in` substring test, str.split and str.join are computed.  A dict   *)
(* is a function from key strings, a list is a sequence.  JSON text is a   *)
(* tagged structure produced by json_dumps and read back by json_loads.    *)
(* The external collaborators (newspaper Article, feedparser) are a small  *)
(* world of URLs with the outcomes they can produce.                       *)
(***************************************************************************)
EXTENDS Integers, Sequences, FiniteSets, TLC

\* ------------------------------------------------------------------ bounds
MaxUrls == 3
MaxFeeds == 2
MaxEntries == 3
MaxCap == 3

\* ------------------------------------------------------- program constants
SleepSeconds == 1
KeywordLimit == 10

\* --------------------------------------------------------- python helpers
Min(a, b) == IF a <= b THEN a ELSE b

Max(a, b) == IF a >= b THEN a ELSE b

None == "None"

\* s[:n] of Python: a negative n counts from the end of s.
PySliceTo_Clamped(s, n) ==
    SubSeq(s, 1, Min(Max(n, 0), Len(s)))

PySliceTo(s, n) ==
    IF n >= 0 THEN SubSeq(s, 1, Min(n, Len(s)))
              ELSE SubSeq(s, 1, Max(Len(s) + n, 0))

\* str.lower() on the alphabet of the model, character by character.
LowerChar(c) ==
    CASE c = "A" -> "a"
      [] c = "B" -> "b"
      [] c = "C" -> "c"
      [] c = "D" -> "d"
      [] OTHER -> c

Lower(s) == [i \in 1..Len(s) |-> LowerChar(s[i])]

\* q in t, for two texts
Contains(t, q) ==
    \E k \in 0..(Len(t) - Len(q)) : SubSeq(t, k + 1, k + Len(q)) = q

\* index of the first occurrence of sep in s from position k on, 0 if none
RECURSIVE FindFrom(_, _, _)
FindFrom(s, sep, k) ==
    IF k + Len(sep) - 1 > Len(s) THEN 0
    ELSE IF SubSeq(s, k, k + Len(sep) - 1) = sep THEN k
    ELSE FindFrom(s, sep, k + 1)

\* s.split(sep), sep non-empty
RECURSIVE Split(_, _)
Split(s, sep) ==
    LET k == FindFrom(s, sep, 1) IN
    IF k = 0 THEN << s >>
    ELSE << SubSeq(s, 1, k - 1) >> \o Split(SubSeq(s, k + Len(sep), Len(s)), sep)

\* sep.join(parts)
RECURSIVE Join(_, _)
Join(parts, sep) ==
    IF Len(parts) = 0 THEN << >>
    ELSE IF Len(parts) = 1 THEN parts[1]
    ELSE parts[1] \o sep \o Join(Tail(parts), sep)

\* dict.get(key, default)
Get(d, key, default) == IF key \in DOMAIN d THEN d[key] ELSE default

HasAttr(e, a) == a \in DOMAIN e

\* ------------------------------------------------------------------- JSON
KeyOrder ==
    << "url", "title", "text", "summary", "keywords", "authors", "publish_date",
       "top_image", "images", "movies", "meta_description", "meta_lang",
       "meta_favicon", "meta_keywords", "canonical_link", "success", "error",
       "rss_url", "rss_title", "rss_published", "rss_summary" >>

RECURSIVE Members(_, _)
Members(d, k) ==
    IF k > Len(KeyOrder) THEN << >>
    ELSE IF KeyOrder[k] \in DOMAIN d
         THEN << << KeyOrder[k], d[KeyOrder[k]] >> >> \o Members(d, k + 1)
         ELSE Members(d, k + 1)

DumpsDict(d) == [kind |-> "object", members |-> Members(d, 1)]

\* json.dumps of a dict, or of a list of dicts
json_dumps(v) ==
    IF v.type = "list"
    THEN [kind |-> "array", items |-> [i \in 1..Len(v.items) |-> DumpsDict(v.items[i])]]
    ELSE DumpsDict(v.fields)

LoadsDict(t) ==
    [k \in {t.members[i][1] : i \in 1..Len(t.members)} |->
        (CHOOSE p \in {t.members[i] : i \in 1..Len(t.members)} : p[1] = k)[2]]

\* json.loads: the Python value, tagged with its type
json_loads(t) ==
    IF t.kind = "array"
    THEN [type |-> "list", items |-> [i \in 1..Len(t.items) |-> LoadsDict(t.items[i])]]
    ELSE [type |-> "dict", fields |-> LoadsDict(t)]

PyList(items) == [type |-> "list", items |-> items]

PyDict(fields) == [type |-> "dict", fields |-> fields]

NoText == [kind |-> "none"]

\* ------------------------------------------- the collaborators (the world)
\* Article URLs.  uTitle, uBody, uSum and uPlain are pages the Article
\* Extraction Service parses; uPlain can also fail to download; uFail always
\* raises ArticleException; uBoom raises some other exception.
Urls == {"uTitle", "uBody", "uSum", "uPlain", "uFail", "uBoom"}

Languages == {"en", "fr"}

BasePage ==
    [title |-> << "x" >>, text |-> << "y" >>, summary |-> << "z" >>,
     keywords |-> << "k1", "k2" >>, authors |-> << "ann" >>,
     publish_date |-> None, top_image |-> "img", images |-> << "img" >>,
     movies |-> << >>, meta_description |-> "md", meta_lang |-> "en",
     meta_favicon |-> "ico", meta_keywords |-> << "mk" >>,
     canonical_link |-> "canon"]

PageOf(u) ==
    CASE u = "uTitle" ->
           [BasePage EXCEPT !.title = << "a", "B", ".", " ", "c" >>,
                            !.publish_date = "2024-05-01 00:00:00"]
      [] u = "uBody" ->
           [BasePage EXCEPT !.text = << "A", ".", " ", "B", ".", " ", "C", ".", " ", "D", "." >>,
                            !.summary = << >>]
      [] u = "uSum" ->
           [BasePage EXCEPT !.summary = << "x", "A", "b" >>]
      [] u = "uPlain" ->
           [BasePage EXCEPT !.summary = << >>]
      [] OTHER -> BasePage

\* What Article(url, language).download()/parse()/nlp() can do.
Service(u, lang) ==
    CASE u = "uFail" -> {[kind |-> "ArticleException", msg |-> "download failed"]}
      [] u = "uBoom" -> {[kind |-> "Exception", msg |-> "boom"]}
      [] u = "uPlain" -> {[kind |-> "ok", page |-> PageOf(u)],
                          [kind |-> "ArticleException", msg |-> "timeout"]}
      [] OTHER -> {[kind |-> "ok", page |-> PageOf(u)]}

\* Feed URLs.  The three default feeds and one the Feed Reader cannot read.
CNN == "http://rss.cnn.com/rss/edition.rss"

BBC == "https://feeds.bbci.co.uk/news/rss.xml"

NYT == "https://rss.nytimes.com/services/xml/rss/nyt/HomePage.xml"

BadFeed == "bad-feed"

DefaultFeeds == << CNN, BBC, NYT >>

FeedUrls == {CNN, BBC, BadFeed}

LinkEntry(u) == [link |-> u, title |-> "t", published |-> "p", summary |-> "s"]

\* The entries a feed repeats; an entry may lack its link or other attributes.
FeedPattern(f) ==
    CASE f = CNN -> << LinkEntry("uTitle"), [title |-> "no link"],
                       LinkEntry("uBody") >>
      [] f = BBC -> << LinkEntry("uFail"), [link |-> "uPlain"],
                       LinkEntry("uBoom") >>
      [] OTHER -> << LinkEntry("uBody"), LinkEntry("uSum"), [summary |-> "no link"] >>

EntriesOf(f, n) ==
    [i \in 1..n |-> FeedPattern(f)[((i - 1) % Len(FeedPattern(f))) + 1]]

\* What feedparser.parse(rss_url) can do: raise, or return a feed of any length
\* up to MaxEntries (zero entries included).
FeedReader(f) ==
    IF f = BadFeed
    THEN {[kind |-> "raise", msg |-> "unreadable"]}
    ELSE {[kind |-> "ok", entries |-> EntriesOf(f, n)] : n \in 0..MaxEntries}

Queries == {<< "A", "b" >>, << "b", ".", " ", "C" >>}

Caps == (0 - MaxCap)..MaxCap

RECURSIVE SeqsUpTo(_, _)
SeqsUpTo(S, n) ==
    IF n = 0 THEN {<< >>}
    ELSE LET shorter == SeqsUpTo(S, n - 1) IN
         shorter \cup {Append(s, x) : s \in {t \in shorter : Len(t) = n - 1}, x \in S}

\* ------------------------------------------------------ crawl_news_article
ContentKeys ==
    {"title", "text", "summary", "keywords", "authors", "publish_date",
     "top_image", "images", "movies", "meta_description", "meta_lang",
     "meta_favicon", "meta_keywords", "canonical_link"}

Returned(text) == [raised |-> FALSE, value |-> text]

Raised(msg) == [raised |-> TRUE, exc |-> msg]

ArticleResult(url, page) ==
    [url |-> url, title |-> page.title, text |-> page.text,
     summary |-> page.summary, keywords |-> page.keywords,
     authors |-> page.authors, publish_date |-> page.publish_date,
     top_image |-> page.top_image, images |-> page.images,
     movies |-> page.movies, meta_description |-> page.meta_description,
     meta_lang |-> page.meta_lang, meta_favicon |-> page.meta_favicon,
     meta_keywords |-> page.meta_keywords,
     canonical_link |-> page.canonical_link, success |-> TRUE]

ErrorResult(url, prefix, msg) ==
    [url |-> url, success |-> FALSE, error |-> << prefix, msg >>]

\* the handler without its `except Exception` clause
crawl_news_article_NoCatchAll(url, language, outcome) ==
    CASE outcome.kind = "ok" ->
           Returned(json_dumps(PyDict(ArticleResult(url, outcome.page))))
      [] outcome.kind = "ArticleException" ->
           Returned(json_dumps(PyDict(ErrorResult(url, "Newspaper4k error", outcome.msg))))
      [] OTHER -> Raised(outcome.msg)

\* outcome is what the Article Extraction Service did inside the try block
crawl_news_article(url, language, outcome) ==
    CASE outcome.kind = "ok" ->
           Returned(json_dumps(PyDict(ArticleResult(url, outcome.page))))
      [] outcome.kind = "ArticleException" ->
           Returned(json_dumps(PyDict(ErrorResult(url, "Newspaper4k error", outcome.msg))))
      [] OTHER ->
           Returned(json_dumps(PyDict(ErrorResult(url, "Unexpected error", outcome.msg))))

\* ------------------------------------------------------------------ state
VARIABLES
    op,             \* the operation invoked, "none" before the call
    pc,             \* where the invoked coroutine stands
    url, language, urls, rss_url, max_articles,
    query, rss_feeds, max_results, summary_length,     \* arguments
    results,        \* results of the batch loop / of the feed loop
    entries,        \* feed.entries of the running discover call
    selected,       \* feed.entries[:articles_to_process]
    idx,            \* position of the batch loop / of the feed loop
    all_articles,   \* all_articles of search_and_extract_news
    feedIdx,        \* position of the loop over rss_feeds
    discRet,        \* text returned by the running discover call
    ret,            \* text returned by the operation
    raised,         \* TRUE when an exception left the operation
    clock,          \* event-loop time, in seconds
    inv,            \* number of discover calls started
    feedFault,      \* TRUE when feedparser.parse raised in the running discover call
    calls,          \* history of the crawl_news_article calls
    discoverCalls,  \* history of the discover calls search made
    feedRets        \* history of the texts those calls returned

args == << url, language, urls, rss_url, max_articles, query, rss_feeds,
           max_results, summary_length >>

discState == << results, entries, selected, idx, discRet, feedFault >>

searchState == << all_articles, feedIdx, discoverCalls, feedRets >>

vars == << op, pc, args, discState, searchState, ret, raised, clock, inv, calls >>

Init ==
    /\ op = "none"
    /\ pc = "idle"
    /\ url = ""
    /\ language = "en"
    /\ urls = << >>
    /\ rss_url = ""
    /\ max_articles = 10
    /\ query = << >>
    /\ rss_feeds = << >>
    /\ max_results = 5
    /\ summary_length = 5
    /\ results = << >>
    /\ entries = << >>
    /\ selected = << >>
    /\ idx = 1
    /\ all_articles = << >>
    /\ feedIdx = 1
    /\ discRet = NoText
    /\ ret = NoText
    /\ raised = FALSE
    /\ clock = 0
    /\ inv = 0
    /\ feedFault = FALSE
    /\ calls = << >>
    /\ discoverCalls = << >>
    /\ feedRets = << >>

\* one entry of the call history
CallRecord(u, lang, outcome, r) ==
    [url |-> u, language |-> lang, outcome |-> outcome, r |-> r,
     inv |-> inv, at |-> clock]

\* --------------------------------------------- crawl_news_article, invoked
CallCrawl ==
    /\ pc = "idle"
    /\ \E u \in Urls, lang \in Languages :
         \E o \in Service(u, lang) :
            LET r == crawl_news_article(u, lang, o) IN
            /\ op' = "crawl"
            /\ url' = u
            /\ language' = lang
            /\ calls' = Append(calls, CallRecord(u, lang, o, r))
            /\ raised' = r.raised
            /\ ret' = IF r.raised THEN NoText ELSE r.value
            /\ pc' = "done"
    /\ UNCHANGED << urls, rss_url, max_articles, query, rss_feeds, max_results,
                    summary_length, discState, searchState, clock, inv >>

\* ------------------------------------------ extract_multiple_news_articles
\* the loop body that drops the record of a failed extraction
batch_append_DropFailed(rs, u, r) ==
    IF r.raised THEN rs
    ELSE IF json_loads(r.value).fields.success
         THEN Append(rs, json_loads(r.value).fields)
         ELSE rs

\* the body of `for url in urls`: r is what crawl_news_article(url, language) did
batch_append(rs, u, r) ==
    IF r.raised
    THEN Append(rs, [url |-> u, success |-> FALSE, error |-> << "", r.exc >>])
    ELSE Append(rs, json_loads(r.value).fields)

CallBatch ==
    /\ pc = "idle"
    /\ \E us \in SeqsUpTo(Urls, MaxUrls), lang \in Languages :
         /\ urls' = us
         /\ language' = lang
    /\ op' = "batch"
    /\ results' = << >>
    /\ idx' = 1
    /\ pc' = "batch_loop"
    /\ UNCHANGED << url, rss_url, max_articles, query, rss_feeds, max_results,
                    summary_length, entries, selected, discRet, feedFault,
                    searchState, ret, raised, clock, inv, calls >>

BatchStep ==
    /\ pc = "batch_loop"
    /\ idx <= Len(urls)
    /\ \E o \in Service(urls[idx], language) :
         LET r == crawl_news_article(urls[idx], language, o) IN
         /\ calls' = Append(calls, CallRecord(urls[idx], language, o, r))
         /\ results' = batch_append(results, urls[idx], r)
    /\ idx' = idx + 1
    /\ UNCHANGED << op, pc, args, entries, selected, discRet, feedFault,
                    searchState, ret, raised, clock, inv >>

BatchReturn ==
    /\ pc = "batch_loop"
    /\ idx > Len(urls)
    /\ ret' = json_dumps(PyList(results))
    /\ pc' = "done"
    /\ UNCHANGED << op, args, discState, searchState, raised, clock, inv, calls >>

\* -------------------------------------------------- discover_news_from_rss
FeedError(f, prefix, msg) ==
    [success |-> FALSE, error |-> << prefix, msg >>, rss_url |-> f]

\* a feed test that lets an empty feed into the loop
feed_has_entries_Always(es) == TRUE

\* `if feed.entries:`
feed_has_entries(es) == Len(es) > 0

\* feed.entries[:articles_to_process], articles_to_process = min(max_articles, len)
select_entries(es, cap) == PySliceTo(es, Min(cap, Len(es)))

\* the three rss_* assignments on the parsed article
with_rss(article_json, entry) ==
    [rss_title |-> IF HasAttr(entry, "title") THEN entry.title ELSE None,
     rss_published |-> IF HasAttr(entry, "published") THEN entry.published ELSE None,
     rss_summary |-> IF HasAttr(entry, "summary") THEN entry.summary ELSE None]
    @@ article_json

\* a sleep that returns at once
asyncio_sleep_NoWait(now, seconds) == now

\* asyncio.sleep(seconds) resumes no earlier than seconds after now; the model
\* takes the earliest time.
asyncio_sleep(now, seconds) == now + seconds

CallDiscover ==
    /\ pc = "idle"
    /\ \E f \in FeedUrls, k \in Caps :
         /\ rss_url' = f
         /\ max_articles' = k
    /\ op' = "discover"
    /\ inv' = inv + 1
    /\ pc' = "disc_parse"
    /\ UNCHANGED << url, language, urls, query, rss_feeds, max_results,
                    summary_length, discState, searchState, ret, raised, clock,
                    calls >>

DiscoverParse ==
    /\ pc = "disc_parse"
    /\ \E fr \in FeedReader(rss_url) :
         IF fr.kind = "raise"
         THEN /\ feedFault' = TRUE
              /\ entries' = << >>
              /\ selected' = << >>
              /\ discRet' = json_dumps(PyDict(FeedError(rss_url, "RSS parsing error", fr.msg)))
              /\ pc' = "disc_return"
         ELSE /\ feedFault' = FALSE
              /\ entries' = fr.entries
              /\ IF feed_has_entries(fr.entries)
                 THEN /\ selected' = select_entries(fr.entries, max_articles)
                      /\ discRet' = NoText
                      /\ pc' = "disc_loop"
                 ELSE /\ selected' = << >>
                      /\ discRet' = json_dumps(PyDict(
                             FeedError(rss_url, "No entries found in RSS feed", "")))
                      /\ pc' = "disc_return"
    /\ results' = << >>
    /\ idx' = 1
    /\ UNCHANGED << op, args, searchState, ret, raised, clock, inv, calls >>

DiscoverEntry ==
    /\ pc = "disc_loop"
    /\ idx <= Len(selected)
    /\ LET entry == selected[idx] IN
       IF HasAttr(entry, "link")
       THEN \E o \in Service(entry.link, "en") :
              LET r == crawl_news_article(entry.link, "en", o) IN
              /\ calls' = Append(calls, CallRecord(entry.link, "en", o, r))
              /\ IF r.raised
                 THEN /\ discRet' = json_dumps(PyDict(
                             FeedError(rss_url, "RSS parsing error", r.exc)))
                      /\ pc' = "disc_return"
                      /\ UNCHANGED results
                 ELSE /\ results' = Append(results,
                             with_rss(json_loads(r.value).fields, entry))
                      /\ pc' = "disc_sleep"
                      /\ UNCHANGED discRet
       ELSE /\ pc' = "disc_sleep"
            /\ UNCHANGED << results, discRet, calls >>
    /\ UNCHANGED << op, args, entries, selected, idx, feedFault, searchState,
                    ret, raised, clock, inv >>

DiscoverSleep ==
    /\ pc = "disc_sleep"
    /\ clock' = asyncio_sleep(clock, SleepSeconds)
    /\ idx' = idx + 1
    /\ pc' = "disc_loop"
    /\ UNCHANGED << op, args, results, entries, selected, discRet, feedFault,
                    searchState, ret, raised, inv, calls >>

DiscoverFinish ==
    /\ pc = "disc_loop"
    /\ idx > Len(selected)
    /\ discRet' = json_dumps(PyList(results))
    /\ pc' = "disc_return"
    /\ UNCHANGED << op, args, results, entries, selected, idx, feedFault,
                    searchState, ret, raised, clock, inv, calls >>

\* the return to the caller: the tool boundary, or search_and_extract_news
DiscoverReturn ==
    /\ pc = "disc_return"
    /\ IF op = "discover"
       THEN /\ ret' = discRet
            /\ pc' = "done"
            /\ UNCHANGED feedRets
       ELSE /\ feedRets' = Append(feedRets, discRet)
            /\ pc' = "search_collect"
            /\ UNCHANGED ret
    /\ UNCHANGED << op, args, discState, all_articles, feedIdx, discoverCalls,
                    raised, clock, inv, calls >>

\* ------------------------------------------------- search_and_extract_news
\* a merge that also keeps the error object of a failed feed
collect_feed_KeepErrors(all, data) ==
    IF data.type = "list" THEN all \o data.items ELSE Append(all, data.fields)

\* `if isinstance(articles_data, list): all_articles.extend(articles_data)`
collect_feed(all, data) ==
    IF data.type = "list" THEN all \o data.items ELSE all

\* a filter that forgets to lowercase the article's fields
Matches_CaseSensitive(article, query_lower) ==
    /\ Get(article, "success", FALSE)
    /\ \/ Contains(Get(article, "title", << >>), query_lower)
       \/ Contains(Get(article, "text", << >>), query_lower)
       \/ Contains(Get(article, "summary", << >>), query_lower)

\* the condition of the filter loop
Matches(article, query_lower) ==
    /\ Get(article, "success", FALSE)
    /\ \/ Contains(Lower(Get(article, "title", << >>)), query_lower)
       \/ Contains(Lower(Get(article, "text", << >>)), query_lower)
       \/ Contains(Lower(Get(article, "summary", << >>)), query_lower)

matching_articles(all, q) ==
    SelectSeq(all, LAMBDA a : Matches(a, Lower(q)))

FeedArgs ==
    {[given |-> TRUE, feeds |-> fs] : fs \in SeqsUpTo(FeedUrls, MaxFeeds)}
        \cup {[given |-> FALSE, feeds |-> << >>]}

CallSearch ==
    /\ pc = "idle"
    /\ \E q \in Queries, fa \in FeedArgs, k \in Caps :
         /\ query' = q
         /\ rss_feeds' = IF fa.given THEN fa.feeds ELSE DefaultFeeds
         /\ max_results' = k
    /\ op' = "search"
    /\ all_articles' = << >>
    /\ feedIdx' = 1
    /\ pc' = "search_loop"
    /\ UNCHANGED << url, language, urls, rss_url, max_articles, summary_length,
                    discState, discoverCalls, feedRets, ret, raised, clock, inv,
                    calls >>

SearchNextFeed ==
    /\ pc = "search_loop"
    /\ feedIdx <= Len(rss_feeds)
    /\ rss_url' = rss_feeds[feedIdx]
    /\ max_articles' = max_results
    /\ discoverCalls' = Append(discoverCalls,
            [rss_url |-> rss_feeds[feedIdx], max_articles |-> max_results])
    /\ inv' = inv + 1
    /\ pc' = "disc_parse"
    /\ UNCHANGED << op, url, language, urls, query, rss_feeds, max_results,
                    summary_length, discState, all_articles, feedIdx, feedRets,
                    ret, raised, clock, calls >>

SearchCollect ==
    /\ pc = "search_collect"
    /\ all_articles' = collect_feed(all_articles, json_loads(discRet))
    /\ feedIdx' = feedIdx + 1
    /\ pc' = "search_loop"
    /\ UNCHANGED << op, args, discState, discoverCalls, feedRets, ret, raised,
                    clock, inv, calls >>

SearchFilter ==
    /\ pc = "search_loop"
    /\ feedIdx > Len(rss_feeds)
    /\ ret' = json_dumps(PyList(
            PySliceTo(matching_articles(all_articles, query), max_results)))
    /\ pc' = "done"
    /\ UNCHANGED << op, args, discState, searchState, raised, clock, inv, calls >>

\* -------------------------------------------------------- get_news_summary
Period == << "." >>

SentenceSep == << ".", " " >>

\* the fallback summary: '. '.join(text.split('. ')[:summary_length]) + '.'
fallback_summary(text, n) ==
    Join(PySliceTo(Split(text, SentenceSep), n), SentenceSep) \o Period

\* r is what crawl_news_article(url) did
get_news_summary(u, n, r) ==
    IF r.raised
    THEN json_dumps(PyDict(ErrorResult(u, "Summary extraction error", r.exc)))
    ELSE LET article_json == json_loads(r.value).fields
             auto == Get(article_json, "summary", << >>)
         IN IF Get(article_json, "success", FALSE)
            THEN json_dumps(PyDict(
                   [url |-> u,
                    title |-> Get(article_json, "title", None),
                    summary |-> IF auto = << >>
                                THEN fallback_summary(Get(article_json, "text", << >>), n)
                                ELSE auto,
                    keywords |-> PySliceTo(Get(article_json, "keywords", << >>), KeywordLimit),
                    authors |-> Get(article_json, "authors", None),
                    publish_date |-> Get(article_json, "publish_date", None),
                    top_image |-> Get(article_json, "top_image", None),
                    success |-> TRUE]))
            ELSE r.value

SummaryLengths == Caps \cup {MaxCap + 3}

CallSummary ==
    /\ pc = "idle"
    /\ \E u \in Urls, n \in SummaryLengths :
         \E o \in Service(u, "en") :
            LET r == crawl_news_article(u, "en", o) IN
            /\ url' = u
            /\ summary_length' = n
            /\ calls' = Append(calls, CallRecord(u, "en", o, r))
            /\ ret' = get_news_summary(u, n, r)
    /\ op' = "summary"
    /\ pc' = "done"
    /\ UNCHANGED << language, urls, rss_url, max_articles, query, rss_feeds,
                    max_results, discState, searchState, raised, clock, inv >>

\* ---------------------------------------------------------- specification
Next ==
    \/ CallCrawl
    \/ CallBatch
    \/ BatchStep
    \/ BatchReturn
    \/ CallDiscover
    \/ DiscoverParse
    \/ DiscoverEntry
    \/ DiscoverSleep
    \/ DiscoverFinish
    \/ DiscoverReturn
    \/ CallSearch
    \/ SearchNextFeed
    \/ SearchCollect
    \/ SearchFilter
    \/ CallSummary

Spec == Init /\ [][Next]_vars

\* ------------------------------------------------------ reading the state
Done(o) == op = o /\ pc = "done"

\* the record a crawl_news_article call returned
ExtractionOf(c) == json_loads(c.r.value).fields

\* the calls made by discover call number k, in order
CallsOf(k) == SelectSeq(calls, LAMBDA c : c.inv = k)

\* the error classes of the specification, read off the error description
ErrorClass(rec) ==
    CASE rec.error[1] = "Newspaper4k error" -> "ExtractionFailure"
      [] rec.error[1] = "Unexpected error" -> "InternalFailure"
      [] OTHER -> "unclassified"

\* the first n elements of s, none when n is not positive
FirstN(s, n) == IF n <= 0 THEN << >> ELSE SubSeq(s, 1, Min(n, Len(s)))

QueryIn(rec, field) ==
    Contains(Lower(Get(rec, field, << >>)), Lower(query))

\* the records of the feeds that returned a list, in feed order
RECURSIVE MergedRecords(_)
MergedRecords(rets) ==
    IF Len(rets) = 0 THEN << >>
    ELSE (IF Head(rets).kind = "array" THEN json_loads(Head(rets)).items ELSE << >>)
         \o MergedRecords(Tail(rets))

\* ------------------------------------------------------------------ claims

\* C1: extract_multiple_news_articles returns exactly len(urls) records, the
\* record at position i being what the extraction of urls[i] returned; a failed
\* extraction gives a success=false record at its position and every other
\* position is still processed.
Thm_C1_BatchPositional ==
    Done("batch") =>
        LET out == json_loads(ret) IN
        /\ out.type = "list"
        /\ Len(out.items) = Len(urls)
        /\ Len(calls) = Len(urls)
        /\ \A i \in 1..Len(urls) :
             /\ calls[i].url = urls[i]
             /\ calls[i].language = language
             /\ ~calls[i].r.raised
             /\ out.items[i] = ExtractionOf(calls[i])
             /\ out.items[i].url = urls[i]
             /\ out.items[i].success = (calls[i].outcome.kind = "ok")

Wit_C1_RepeatedAndFailing ==
    /\ Done("batch")
    /\ Len(urls) = 3
    /\ urls[1] = "uFail"
    /\ urls[2] = urls[3]
    /\ ~json_loads(ret).items[1].success
    /\ json_loads(ret).items[2].success
    /\ json_loads(ret).items[3].success

\* C2: no crawl_news_article call raises; each returns one record with the
\* url and a success flag; ArticleException gives success=false classified
\* ExtractionFailure, any other exception success=false classified
\* InternalFailure, and a success=false record has no content field.
Thm_C2_CrawlNeverRaises ==
    /\ ~raised
    /\ \A i \in 1..Len(calls) :
         LET c == calls[i] IN
         /\ ~c.r.raised
         /\ c.r.value.kind = "object"
         /\ LET rec == ExtractionOf(c) IN
            /\ {"url", "success"} \subseteq DOMAIN rec
            /\ rec.url = c.url
            /\ rec.success \in BOOLEAN
            /\ rec.success = (c.outcome.kind = "ok")
            /\ rec.success => ContentKeys \subseteq DOMAIN rec /\ "error" \notin DOMAIN rec
            /\ ~rec.success => DOMAIN rec = {"url", "success", "error"}
            /\ c.outcome.kind = "ArticleException" => ErrorClass(rec) = "ExtractionFailure"
            /\ c.outcome.kind = "Exception" => ErrorClass(rec) = "InternalFailure"
    /\ Done("crawl") => Len(calls) = 1 /\ ret = calls[1].r.value /\ calls[1].url = url

Wit_C2_UnexpectedFault ==
    /\ Done("crawl")
    /\ calls[1].outcome.kind = "Exception"
    /\ ~json_loads(ret).fields.success

\* C3: for a feed with entries, discover_news_from_rss returns the extractions
\* of the link-bearing entries among the first min(maxArticles, entryCount)
\* entries, in feed order, and none when that number is not positive.
Claim_C3_FeedCap ==
    (Done("discover") /\ ret.kind = "array") =>
        LET linked == SelectSeq(FirstN(entries, Min(max_articles, Len(entries))),
                                LAMBDA e : HasAttr(e, "link"))
            out == json_loads(ret).items
            made == CallsOf(inv)
        IN /\ Len(out) = Len(linked)
           /\ Len(made) = Len(linked)
           /\ \A i \in 1..Len(linked) :
                /\ made[i].url = linked[i].link
                /\ out[i] = with_rss(ExtractionOf(made[i]), linked[i])

\* what a discover call may return, given what the Feed Reader did
DiscoverOutcome(t) ==
    LET v == json_loads(t) IN
    IF feedFault \/ Len(entries) = 0
    THEN /\ v.type = "dict"
         /\ DOMAIN v.fields = {"success", "error", "rss_url"}
         /\ v.fields.success = FALSE
         /\ v.fields.rss_url = rss_url
         /\ Len(CallsOf(inv)) = 0
    ELSE v.type = "list"

\* C4: discover_news_from_rss returns a FeedError object (success=false, the
\* feed URL, a reason), having made no extraction call, exactly when the feed
\* has zero entries or the Feed Reader failed; otherwise it returns a list,
\* also when extractions failed.
Thm_C4_FeedError ==
    /\ pc = "disc_return" => DiscoverOutcome(discRet)
    /\ Done("discover") => DiscoverOutcome(ret)

Wit_C4_EmptyFeed ==
    /\ Done("discover")
    /\ ~feedFault
    /\ Len(entries) = 0
    /\ ret.kind = "object"

\* C5: the sequence search_and_extract_news returns has at most maxResults
\* records, for every integer maxResults.  A length is never negative, so for
\* a negative maxResults the claim is read as its weakest consequence: no
\* record is returned.
Claim_C5_ResultCap ==
    Done("search") => Len(json_loads(ret).items) <= Max(max_results, 0)

\* C6: every record search_and_extract_news returns has success=true and the
\* lowercased query in its lowercased title, body text or auto-summary; and
\* when fewer than maxResults records are returned no such record was left out.
Thm_C6_RelevanceFilter ==
    Done("search") =>
        LET out == json_loads(ret).items IN
        /\ \A i \in 1..Len(out) :
             /\ Get(out[i], "success", FALSE)
             /\ QueryIn(out[i], "title") \/ QueryIn(out[i], "text") \/ QueryIn(out[i], "summary")
        /\ Len(out) < max_results =>
             \A j \in 1..Len(all_articles) :
                (/\ Get(all_articles[j], "success", FALSE)
                 /\ \/ QueryIn(all_articles[j], "title")
                    \/ QueryIn(all_articles[j], "text")
                    \/ QueryIn(all_articles[j], "summary"))
                => \E i \in 1..Len(out) : out[i] = all_articles[j]

Wit_C6_TitleBodyNeither ==
    /\ Done("search")
    /\ LET out == json_loads(ret).items IN
       /\ \E i \in 1..Len(out) :
            /\ QueryIn(out[i], "title")
            /\ ~QueryIn(out[i], "text")
            /\ ~QueryIn(out[i], "summary")
       /\ \E i \in 1..Len(out) :
            /\ ~QueryIn(out[i], "title")
            /\ QueryIn(out[i], "text")
            /\ ~QueryIn(out[i], "summary")
       /\ \E j \in 1..Len(all_articles) :
            /\ all_articles[j].success
            /\ ~QueryIn(all_articles[j], "title")
            /\ ~QueryIn(all_articles[j], "text")
            /\ ~QueryIn(all_articles[j], "summary")
            /\ \A i \in 1..Len(out) : out[i] # all_articles[j]

\* C7: search_and_extract_news returns exactly the first maxResults of the
\* matching records of the feeds' records concatenated in feedUrls order.
Claim_C7_MergeOrder ==
    Done("search") =>
        json_loads(ret).items =
            FirstN(SelectSeq(MergedRecords(feedRets),
                             LAMBDA a : /\ Get(a, "success", FALSE)
                                        /\ \/ QueryIn(a, "title")
                                           \/ QueryIn(a, "text")
                                           \/ QueryIn(a, "summary")),
                   max_results)

\* C8: a feed that ends in a feed-level failure adds no record and does not
\* stop the loop: every feed of feedUrls is passed to discover_news_from_rss
\* once, in order, with maxArticles = maxResults, and all_articles is the
\* concatenation of the records of the feeds that returned a list.
Thm_C8_FeedIsolation ==
    /\ op = "search" =>
         /\ Len(discoverCalls) <= Len(rss_feeds)
         /\ \A k \in 1..Len(discoverCalls) :
              discoverCalls[k] = [rss_url |-> rss_feeds[k], max_articles |-> max_results]
         /\ pc \in {"search_loop", "done"} => all_articles = MergedRecords(feedRets)
    /\ Done("search") =>
         /\ Len(discoverCalls) = Len(rss_feeds)
         /\ Len(feedRets) = Len(rss_feeds)

Wit_C8_FailedThenGood ==
    /\ Done("search")
    /\ Len(rss_feeds) = 2
    /\ feedRets[1].kind = "object"
    /\ feedRets[2].kind = "array"
    /\ Len(all_articles) > 0

\* a summary call whose extraction succeeded with an empty auto-summary
FallbackCase ==
    /\ Done("summary")
    /\ calls[1].outcome.kind = "ok"
    /\ calls[1].outcome.page.summary = << >>

\* the body text split on ". "
Fragments == Split(calls[1].outcome.page.text, SentenceSep)

\* C9 as stated: with a successful extraction and an empty auto-summary the
\* summary is the first summaryLength fragments of the body split on ". ",
\* rejoined with ". " and followed by a period; it is empty for every
\* non-positive summaryLength.
Claim_C9_NonPositiveEmpty ==
    FallbackCase =>
        json_loads(ret).fields.summary =
            IF summary_length > 0
            THEN Join(SubSeq(Fragments, 1, Min(summary_length, Len(Fragments))), SentenceSep)
                 \o Period
            ELSE << >>

\* C9 amended: as stated for a positive summaryLength ("A. B. C. D." with 2
\* gives "A. B."); for summaryLength = 0 the summary is the single period, and
\* for a negative summaryLength it is built from all but the last
\* -summaryLength fragments (none when there are not that many), never empty.
Thm_C9_FallbackSummary ==
    FallbackCase =>
        LET s == json_loads(ret).fields.summary
            kept == IF summary_length >= 0
                    THEN Min(summary_length, Len(Fragments))
                    ELSE Max(Len(Fragments) + summary_length, 0)
        IN /\ s = Join(SubSeq(Fragments, 1, kept), SentenceSep) \o Period
           /\ summary_length = 0 => s = Period
           /\ s # << >>
           /\ (url = "uBody" /\ summary_length = 2) => s = << "A", ".", " ", "B", "." >>
           /\ (url = "uBody" /\ summary_length = 0 - 1) =>
                s = << "A", ".", " ", "B", ".", " ", "C", "." >>
           /\ (url = "uBody" /\ summary_length > 3) =>
                s = << "A", ".", " ", "B", ".", " ", "C", ".", " ", "D", ".", "." >>

Wit_C9_Example ==
    /\ FallbackCase
    /\ calls[1].outcome.page.text = << "A", ".", " ", "B", ".", " ", "C", ".", " ", "D", "." >>
    /\ summary_length = 2
    /\ json_loads(ret).fields.summary = << "A", ".", " ", "B", "." >>

\* C10: within one discover_news_from_rss call, an extraction call starts no
\* earlier than the politeness delay after the extraction call before it.
Thm_C10_Pacing ==
    \A i \in 1..(Len(calls) - 1) :
        (calls[i].inv > 0 /\ calls[i].inv = calls[i + 1].inv)
            => calls[i + 1].at >= calls[i].at + SleepSeconds

Wit_C10_LinklessBetween ==
    \E i \in 1..(Len(calls) - 1) :
        /\ calls[i].inv > 0
        /\ calls[i].inv = calls[i + 1].inv
        /\ calls[i + 1].at = calls[i].at + 2 * SleepSeconds

\* ------------------------------------------------- the caps when not negative
\* For a max_articles that is not negative, discover returns the extractions
\* of the link-bearing entries among the first min(max_articles, len) entries.
Lemma_FeedCap_NonNegative ==
    max_articles >= 0 => Claim_C3_FeedCap

\* For a max_results that is not negative, search returns the first
\* max_results matching records of the merged feeds, and no more.
Lemma_ResultCap_NonNegative ==
    max_results >= 0 => (Claim_C5_ResultCap /\ Claim_C7_MergeOrder)

====
